---- MODULE Spec2Model ----
(***************************************************************************)
(* SwarmCoordinator of exo.autogen.swarm_coordinator: the node registry,   *)
(* the task registry, threshold admission, task-to-node assignment, the    *)
(* status snapshot and the continuous learning loop.                       *)
(*                                                                         *)
(* The two registries are Python dicts.  A dict keeps insertion order, an  *)
(* assignment to a present key keeps the key's position, a deletion        *)
(* followed by an insertion moves the key to the end.  They are modelled   *)
(* as sequences of entries, each entry carrying its own key.               *)
(***************************************************************************)
EXTENDS Integers, Sequences, FiniteSets, TLC

\* Capacity figures are counted in units coarse enough to enumerate; each
\* field of a descriptor ranges up to its bound.
MaxMem == 2
MaxCpu == 2
MaxGpu == 1
MaxNet == 2

NodeIds == {"n1", "n2"}
TaskIds == {"t1", "t2"}

NodeStatuses == {"idle", "busy", "learning", "error"}

\* The statuses the task descriptor documents, and the one the matcher writes.
TaskStatuses == {"pending", "running", "completed", "failed", "assigned"}

VARIABLES
    resource_threshold,  \* SwarmCoordinator.resource_threshold
    nodes,               \* SwarmCoordinator.nodes, in insertion order
    tasks,               \* SwarmCoordinator.tasks, in insertion order
    last,                \* the call made by the last step, with what it returned
    pc                   \* where the run_continuous_learning coroutine stands

vars == <<resource_threshold, nodes, tasks, last, pc>>

----------------------------------------------------------------------------
(* Value objects *)

ResourceThreshold(mem, cpu, gpu, net) ==
    [min_memory_gb |-> mem, min_cpu_cores |-> cpu,
     min_gpu_memory_gb |-> gpu, min_network_bandwidth_mbps |-> net]

SwarmNode(id, mem, cpu, gpu, net, st) ==
    [node_id |-> id, available_memory_gb |-> mem, cpu_cores |-> cpu,
     gpu_memory_gb |-> gpu, network_bandwidth_mbps |-> net, status |-> st]

\* A task as its submitter builds it: no node assigned, status "pending".
LearningTask(id, req) ==
    [status |-> "pending", task_id |-> id, required_resources |-> req,
     assigned_nodes |-> <<>>]

Quadruples == (1..MaxMem) \X (1..MaxCpu) \X (0..MaxGpu) \X (1..MaxNet)

TopCapacity == <<MaxMem, MaxCpu, MaxGpu, MaxNet>>
LeastDemand == <<1, 1, 0, 1>>

\* The fields of <<mem, cpu, gpu, net>> that differ from `ref`.
Differing(v, ref) == {i \in 1..4 : v[i] # ref[i]}

\* Capacities a node reports: the largest machine, or one with a single
\* field below it.
NodeCapacities == {v \in Quadruples : Cardinality(Differing(v, TopCapacity)) <= 1}

\* Minimum demands of a threshold or of a task: the least there is, or a
\* single field demanded above it.
Demands == {v \in Quadruples : Cardinality(Differing(v, LeastDemand)) <= 1}

\* The same, with memory the only field that varies.
MemoryCapacities == {v \in NodeCapacities : Differing(v, TopCapacity) \subseteq {1}}
MemoryDemands == {v \in Demands : Differing(v, LeastDemand) \subseteq {1}}

Nodes(capacities, statuses) ==
    {SwarmNode(id, v[1], v[2], v[3], v[4], st) :
        id \in NodeIds, v \in capacities, st \in statuses}

Thresholds(demands) == {ResourceThreshold(v[1], v[2], v[3], v[4]) : v \in demands}

Tasks(ids, demands) ==
    {LearningTask(id, req) : id \in ids, req \in Thresholds(demands)}

\* Task descriptors whose status field was set by the submitter.
TasksAsGiven(ids, demands, statuses) ==
    {[task EXCEPT !.status = st] : task \in Tasks(ids, demands), st \in statuses}

----------------------------------------------------------------------------
(* dict operations *)

NodeKeys(ns) == {ns[i].node_id : i \in 1..Len(ns)}
TaskKeys(ts) == {ts[i].task_id : i \in 1..Len(ts)}

GetNode(ns, id) == ns[CHOOSE i \in 1..Len(ns) : ns[i].node_id = id]
GetTask(ts, id) == ts[CHOOSE i \in 1..Len(ts) : ts[i].task_id = id]

\* Faulty variant: the entry is added without looking for the key.
SetNodeAppending(ns, node) == Append(ns, node)

\* self.nodes[node.node_id] = node
SetNode(ns, node) ==
    IF node.node_id \in NodeKeys(ns)
    THEN [i \in 1..Len(ns) |->
            IF ns[i].node_id = node.node_id THEN node ELSE ns[i]]
    ELSE Append(ns, node)

\* self.tasks[task.task_id] = task
SetTask(ts, task) ==
    IF task.task_id \in TaskKeys(ts)
    THEN [i \in 1..Len(ts) |->
            IF ts[i].task_id = task.task_id THEN task ELSE ts[i]]
    ELSE Append(ts, task)

\* del self.nodes[node_id]
DelNode(ns, id) == SelectSeq(ns, LAMBDA n : n.node_id # id)

----------------------------------------------------------------------------
(* Admission *)

\* Faulty variant: the bandwidth comparison is left out.
_meets_threshold_without_bandwidth(node, threshold) ==
    /\ node.available_memory_gb >= threshold.min_memory_gb
    /\ node.cpu_cores >= threshold.min_cpu_cores
    /\ node.gpu_memory_gb >= threshold.min_gpu_memory_gb

_meets_threshold(node, threshold) ==
    /\ node.available_memory_gb >= threshold.min_memory_gb
    /\ node.cpu_cores >= threshold.min_cpu_cores
    /\ node.gpu_memory_gb >= threshold.min_gpu_memory_gb
    /\ node.network_bandwidth_mbps >= threshold.min_network_bandwidth_mbps

Call(op, arg, ret, assigned) ==
    [op |-> op, arg |-> arg, ret |-> ret, assigned |-> assigned]

\* Faulty variant: the node is stored before the threshold is checked.
register_node_storing_first(node) ==
    /\ nodes' = SetNode(nodes, node)
    /\ last' = Call("register_node", node,
                    _meets_threshold(node, resource_threshold), {})
    /\ UNCHANGED <<resource_threshold, tasks, pc>>

register_node(node) ==
    /\ IF ~_meets_threshold(node, resource_threshold)
       THEN /\ nodes' = nodes
            /\ last' = Call("register_node", node, FALSE, {})
       ELSE /\ nodes' = SetNode(nodes, node)
            /\ last' = Call("register_node", node, TRUE, {})
    /\ UNCHANGED <<resource_threshold, tasks, pc>>

\* Faulty variant: removing a node hands the tasks that list it back to the
\* pending queue.
unregister_node_releasing_tasks(node_id) ==
    /\ IF node_id \in NodeKeys(nodes)
       THEN /\ nodes' = DelNode(nodes, node_id)
            /\ tasks' = [i \in 1..Len(tasks) |->
                           IF \E k \in 1..Len(tasks[i].assigned_nodes) :
                                 tasks[i].assigned_nodes[k] = node_id
                           THEN [tasks[i] EXCEPT !.assigned_nodes = <<>>,
                                                 !.status = "pending"]
                           ELSE tasks[i]]
            /\ last' = Call("unregister_node", node_id, TRUE, {})
       ELSE /\ nodes' = nodes
            /\ tasks' = tasks
            /\ last' = Call("unregister_node", node_id, FALSE, {})
    /\ UNCHANGED <<resource_threshold, pc>>

unregister_node(node_id) ==
    /\ IF node_id \in NodeKeys(nodes)
       THEN /\ nodes' = DelNode(nodes, node_id)
            /\ last' = Call("unregister_node", node_id, TRUE, {})
       ELSE /\ nodes' = nodes
            /\ last' = Call("unregister_node", node_id, FALSE, {})
    /\ UNCHANGED <<resource_threshold, tasks, pc>>

----------------------------------------------------------------------------
(* Task intake and matching *)

\* Faulty variant: the GPU comparison is left out.
_node_suitable_for_task_without_gpu(node, task) ==
    /\ node.available_memory_gb >= task.required_resources.min_memory_gb
    /\ node.cpu_cores >= task.required_resources.min_cpu_cores
    /\ node.network_bandwidth_mbps
           >= task.required_resources.min_network_bandwidth_mbps

_node_suitable_for_task(node, task) ==
    /\ node.available_memory_gb >= task.required_resources.min_memory_gb
    /\ node.cpu_cores >= task.required_resources.min_cpu_cores
    /\ node.gpu_memory_gb >= task.required_resources.min_gpu_memory_gb
    /\ node.network_bandwidth_mbps
           >= task.required_resources.min_network_bandwidth_mbps

\* Faulty variant: the sort key is taken as (cpu_cores, available_memory_gb).
KeyLessCpuFirst(a, b) ==
    \/ a.cpu_cores < b.cpu_cores
    \/ /\ a.cpu_cores = b.cpu_cores
       /\ a.available_memory_gb < b.available_memory_gb

\* key=lambda n: (n.available_memory_gb, n.cpu_cores), compared as tuples
KeyLess(a, b) ==
    \/ a.available_memory_gb < b.available_memory_gb
    \/ /\ a.available_memory_gb = b.available_memory_gb
       /\ a.cpu_cores < b.cpu_cores

\* list.sort(key=..., reverse=True) is stable: entries with equal keys keep
\* the order they had.  `x` stood after every entry of `sorted`.
InsertDescending(sorted, x) ==
    LET p == Cardinality({i \in 1..Len(sorted) : ~KeyLess(sorted[i], x)})
    IN  SubSeq(sorted, 1, p) \o <<x>> \o SubSeq(sorted, p + 1, Len(sorted))

RECURSIVE SortDescending(_)
SortDescending(s) ==
    IF s = <<>> THEN <<>>
    ELSE InsertDescending(SortDescending(SubSeq(s, 1, Len(s) - 1)), s[Len(s)])

Outcome(ns, ts, ret) == [nodes |-> ns, tasks |-> ts, ret |-> ret]

\* Faulty variant: the status of a candidate is not looked at.
SuitableNodesOfAnyStatus(ns, task) ==
    SelectSeq(ns, LAMBDA n : _node_suitable_for_task(n, task))

\* suitable_nodes, in the order of self.nodes.values()
SuitableNodes(ns, task) ==
    SelectSeq(ns, LAMBDA n :
        n.status = "idle" /\ _node_suitable_for_task(n, task))

\* Faulty variant: the task's status is not written.
AssignedToLeftPending(task, node) ==
    [task EXCEPT !.assigned_nodes = <<node.node_id>>]

\* task.assigned_nodes = [assigned_node.node_id]; task.status = "assigned"
AssignedTo(task, node) ==
    [task EXCEPT !.assigned_nodes = <<node.node_id>>, !.status = "assigned"]

\* Faulty variant: the chosen node's status is not written.
BookedLeftIdle(node) == node

\* assigned_node.status = "busy"
Booked(node) == [node EXCEPT !.status = "busy"]

\* The registries and the return value after _assign_nodes_to_task(task_id)
\* runs on registries ns and ts.
_assign_nodes_to_task(ns, ts, task_id) ==
    IF task_id \notin TaskKeys(ts) THEN Outcome(ns, ts, FALSE)
    ELSE
      LET task == GetTask(ts, task_id)
          suitable_nodes == SuitableNodes(ns, task)
      IN  IF suitable_nodes = <<>> THEN Outcome(ns, ts, FALSE)
          ELSE
            LET assigned_node == Head(SortDescending(suitable_nodes))
            IN  Outcome(
                  SetNode(ns, Booked(assigned_node)),
                  SetTask(ts, AssignedTo(task, assigned_node)),
                  TRUE)

submit_learning_task(task) ==
    LET stored == SetTask(tasks, task)
        r == _assign_nodes_to_task(nodes, stored, task.task_id)
    IN  /\ nodes' = r.nodes
        /\ tasks' = r.tasks
        /\ last' = Call("submit_learning_task", task, task.task_id,
                        IF r.ret THEN {task.task_id} ELSE {})
        /\ UNCHANGED <<resource_threshold, pc>>

\* A caller invoking the matcher on its own.
assign_nodes_to_task(task_id) ==
    LET r == _assign_nodes_to_task(nodes, tasks, task_id)
    IN  /\ nodes' = r.nodes
        /\ tasks' = r.tasks
        /\ last' = Call("_assign_nodes_to_task", task_id, r.ret,
                        IF r.ret THEN {task_id} ELSE {})
        /\ UNCHANGED <<resource_threshold, pc>>

----------------------------------------------------------------------------
(* Status snapshot *)

CountNodes(ns, st) == Cardinality({i \in 1..Len(ns) : ns[i].status = st})
CountTasks(ts, st) == Cardinality({i \in 1..Len(ts) : ts[i].status = st})

Snapshot(ns, ts, threshold) ==
    [total_nodes |-> Len(ns),
     idle_nodes |-> CountNodes(ns, "idle"),
     busy_nodes |-> CountNodes(ns, "busy"),
     learning_nodes |-> CountNodes(ns, "learning"),
     pending_tasks |-> CountTasks(ts, "pending"),
     running_tasks |-> CountTasks(ts, "running"),
     completed_tasks |-> CountTasks(ts, "completed"),
     resource_threshold |-> threshold]

\* Faulty variant: reading the status also drops the nodes in error from
\* the registry.
get_swarm_status_pruning ==
    /\ last' = Call("get_swarm_status", "none",
                    Snapshot(nodes, tasks, resource_threshold), {})
    /\ nodes' = SelectSeq(nodes, LAMBDA n : n.status # "error")
    /\ UNCHANGED <<resource_threshold, tasks, pc>>

get_swarm_status ==
    /\ last' = Call("get_swarm_status", "none",
                    Snapshot(nodes, tasks, resource_threshold), {})
    /\ UNCHANGED <<resource_threshold, nodes, tasks, pc>>

----------------------------------------------------------------------------
(* Continuous learning loop *)

\* Faulty variant: every pending task is matched against the nodes as they were when
\* the iteration began.
RECURSIVE AssignEachOnSnapshot(_, _)
AssignEachOnSnapshot(pending_tasks, acc) ==
    IF pending_tasks = <<>> THEN acc
    ELSE
      LET task_id == Head(pending_tasks).task_id
          r == _assign_nodes_to_task(nodes, acc.tasks, task_id)
      IN  AssignEachOnSnapshot(Tail(pending_tasks),
                     [nodes |-> r.nodes, tasks |-> r.tasks,
                      assigned |-> IF r.ret THEN acc.assigned \cup {task_id}
                                   ELSE acc.assigned])

\* for task in pending_tasks: self._assign_nodes_to_task(task.task_id)
\* `acc` carries the registries and the tasks assigned so far.
RECURSIVE AssignEach(_, _)
AssignEach(pending_tasks, acc) ==
    IF pending_tasks = <<>> THEN acc
    ELSE
      LET task_id == Head(pending_tasks).task_id
          r == _assign_nodes_to_task(acc.nodes, acc.tasks, task_id)
      IN  AssignEach(Tail(pending_tasks),
                     [nodes |-> r.nodes, tasks |-> r.tasks,
                      assigned |-> IF r.ret THEN acc.assigned \cup {task_id}
                                   ELSE acc.assigned])

\* Faulty variant: only the oldest pending task is picked up.
PendingTasksOldestOnly(ts) ==
    LET pending == SelectSeq(ts, LAMBDA t : t.status = "pending")
    IN  IF pending = <<>> THEN <<>> ELSE <<Head(pending)>>

\* pending_tasks = [task for task in self.tasks.values()
\*                  if task.status == "pending"]
PendingTasks(ts) == SelectSeq(ts, LAMBDA t : t.status = "pending")

\* Faulty variant: the coroutine is resumed once and never after a sleep.
SuspendedBeforeFirstPass == {"start"}

\* The coroutine is scheduled and has not run yet ("start"), or is suspended
\* in `await asyncio.sleep(5.0)` ("sleep5") or in the handler's
\* `await asyncio.sleep(10.0)` ("sleep10").  Nothing else in the loop
\* suspends: _assign_nodes_to_task is a plain call and _monitor_tasks awaits
\* nothing.
Suspended == {"start", "sleep5", "sleep10"}

\* One pass of the body of `while True`, from the coroutine being resumed to
\* its sleep.  _monitor_tasks only logs the running tasks.  `last` keeps the
\* position the coroutine was resumed from.
run_continuous_learning ==
    LET pending_tasks == PendingTasks(tasks)
        r == AssignEach(pending_tasks,
                        [nodes |-> nodes, tasks |-> tasks, assigned |-> {}])
    IN  /\ pc \in Suspended
        /\ nodes' = r.nodes
        /\ tasks' = r.tasks
        /\ last' = Call("run_continuous_learning", pc, "none", r.assigned)
        /\ pc' = "sleep5"
        /\ UNCHANGED resource_threshold

\* Faulty variant: the error of a pass leaves the coroutine, which ends.
run_continuous_learning_reraising(attempted) ==
    LET pending_tasks == PendingTasks(tasks)
        r == AssignEach(SubSeq(pending_tasks, 1, attempted),
                        [nodes |-> nodes, tasks |-> tasks, assigned |-> {}])
    IN  /\ pc \in Suspended
        /\ attempted \in 0..Len(pending_tasks)
        /\ nodes' = r.nodes
        /\ tasks' = r.tasks
        /\ last' = Call("run_continuous_learning", pc, "raised", r.assigned)
        /\ pc' = "failed"
        /\ UNCHANGED resource_threshold

\* A pass in which an Exception is raised once `attempted` of the pending
\* tasks have gone through the matcher: what was written stays written,
\* `except Exception` logs the error and the coroutine suspends in
\* `await asyncio.sleep(10.0)`.
run_continuous_learning_raising(attempted) ==
    LET pending_tasks == PendingTasks(tasks)
        r == AssignEach(SubSeq(pending_tasks, 1, attempted),
                        [nodes |-> nodes, tasks |-> tasks, assigned |-> {}])
    IN  /\ pc \in Suspended
        /\ attempted \in 0..Len(pending_tasks)
        /\ nodes' = r.nodes
        /\ tasks' = r.tasks
        /\ last' = Call("run_continuous_learning", pc, "raised", r.assigned)
        /\ pc' = "sleep10"
        /\ UNCHANGED resource_threshold

\* Faulty variant: CancelledError counts as an Exception, so the handler
\* around the five-unit sleep catches it and backs off.
cancel_caught_by_handler ==
    /\ pc \in Suspended
    /\ pc' = IF pc = "sleep5" THEN "sleep10" ELSE "cancelled"
    /\ last' = Call("cancel", pc, "none", {})
    /\ UNCHANGED <<resource_threshold, nodes, tasks>>

\* The hosting process cancels the coroutine.  asyncio raises CancelledError
\* at the await the coroutine is suspended in; CancelledError derives from
\* BaseException, so `except Exception` lets it through, both from the sleep
\* inside `try` and from the sleep inside the handler, and the coroutine ends.
\* `last` keeps the position the cancellation hit.
cancel ==
    /\ pc \in Suspended
    /\ pc' = "cancelled"
    /\ last' = Call("cancel", pc, "none", {})
    /\ UNCHANGED <<resource_threshold, nodes, tasks>>

----------------------------------------------------------------------------
(* Governance *)

\* for node_id in nodes_to_remove: self.unregister_node(node_id)
RECURSIVE UnregisterEach(_, _)
UnregisterEach(nodes_to_remove, ns) ==
    IF nodes_to_remove = <<>> THEN ns
    ELSE UnregisterEach(Tail(nodes_to_remove),
                        IF Head(nodes_to_remove) \in NodeKeys(ns)
                        THEN DelNode(ns, Head(nodes_to_remove)) ELSE ns)

\* Faulty variant: only idle nodes are re-evaluated.
NodesToRemoveAmongIdle(ns, threshold) ==
    LET failing == SelectSeq(ns, LAMBDA n :
                       n.status = "idle" /\ ~_meets_threshold(n, threshold))
    IN  [i \in 1..Len(failing) |-> failing[i].node_id]

NodesToRemove(ns, threshold) ==
    LET failing == SelectSeq(ns, LAMBDA n : ~_meets_threshold(n, threshold))
    IN  [i \in 1..Len(failing) |-> failing[i].node_id]

set_resource_threshold(threshold) ==
    /\ resource_threshold' = threshold
    /\ nodes' = UnregisterEach(NodesToRemove(nodes, threshold), nodes)
    /\ last' = Call("set_resource_threshold", threshold, "none", {})
    /\ UNCHANGED <<tasks, pc>>

----------------------------------------------------------------------------

\* SwarmCoordinator(resource_threshold=...): both registries start empty.
Constructed(thresholds) ==
    /\ resource_threshold \in thresholds
    /\ nodes = <<>>
    /\ tasks = <<>>
    /\ last = Call("init", "none", "none", {})
    /\ pc = "start"

\* The coordinator's operations on nodes of any status.  Memory is the
\* capacity that varies and tasks demand the least, so that any idle node
\* suits any task.
Init == Constructed(Thresholds(MemoryDemands))

Next ==
    \/ \E node \in Nodes(MemoryCapacities, NodeStatuses) : register_node(node)
    \/ \E node_id \in NodeIds : unregister_node(node_id)
    \/ \E task \in Tasks(TaskIds, {LeastDemand}) : submit_learning_task(task)
    \/ \E threshold \in Thresholds(MemoryDemands) : set_resource_threshold(threshold)
    \/ run_continuous_learning
    \/ get_swarm_status

Spec == Init /\ [][Next]_vars

\* The operations with the matcher also called on its own.  Memory varies in
\* capacities, thresholds and demands; nodes report themselves idle.
NextDirect ==
    \/ \E node \in Nodes(MemoryCapacities, {"idle"}) : register_node(node)
    \/ \E node_id \in NodeIds : unregister_node(node_id)
    \/ \E task \in Tasks(TaskIds, MemoryDemands) : submit_learning_task(task)
    \/ \E threshold \in Thresholds(MemoryDemands) : set_resource_threshold(threshold)
    \/ run_continuous_learning
    \/ get_swarm_status
    \/ \E task_id \in TaskIds : assign_nodes_to_task(task_id)

SpecDirect == Init /\ [][NextDirect]_vars

\* Admission: every capacity field and every threshold field varies; nodes
\* report themselves idle and one task ID, demanding the least, is submitted
\* over and over.
InitAdmission == Constructed(Thresholds(Demands))

NextAdmission ==
    \/ \E node \in Nodes(NodeCapacities, {"idle"}) : register_node(node)
    \/ \E node_id \in NodeIds : unregister_node(node_id)
    \/ \E task \in Tasks({"t1"}, {LeastDemand}) : submit_learning_task(task)
    \/ \E threshold \in Thresholds(Demands) : set_resource_threshold(threshold)
    \/ run_continuous_learning
    \/ get_swarm_status

SpecAdmission == InitAdmission /\ [][NextAdmission]_vars

\* Matching: every capacity field and every field of a task's demand varies;
\* the threshold admits every node and one task ID is submitted over and over.
InitMatching == Constructed(Thresholds({LeastDemand}))

NextMatching ==
    \/ \E node \in Nodes(NodeCapacities, {"idle"}) : register_node(node)
    \/ \E node_id \in NodeIds : unregister_node(node_id)
    \/ \E task \in Tasks({"t1"}, Demands) : submit_learning_task(task)
    \/ \E threshold \in Thresholds({LeastDemand}) : set_resource_threshold(threshold)
    \/ run_continuous_learning
    \/ get_swarm_status

SpecMatching == InitMatching /\ [][NextMatching]_vars

\* Descriptors as given: submit_learning_task stores whatever status the
\* submitted task carries, as register_node does for a node.
NextAsGiven ==
    \/ \E node \in Nodes(MemoryCapacities, {"idle"}) : register_node(node)
    \/ \E node_id \in NodeIds : unregister_node(node_id)
    \/ \E task \in TasksAsGiven(TaskIds, {LeastDemand}, TaskStatuses) :
          submit_learning_task(task)
    \/ \E threshold \in Thresholds(MemoryDemands) : set_resource_threshold(threshold)
    \/ run_continuous_learning
    \/ get_swarm_status

SpecAsGiven == Init /\ [][NextAsGiven]_vars

\* The loop as a background task beside its callers: passes may raise and
\* the hosting process may cancel the coroutine.
NextLoop ==
    \/ \E node \in Nodes(MemoryCapacities, {"idle"}) : register_node(node)
    \/ \E node_id \in NodeIds : unregister_node(node_id)
    \/ \E task \in Tasks(TaskIds, {LeastDemand}) : submit_learning_task(task)
    \/ \E threshold \in Thresholds(MemoryDemands) : set_resource_threshold(threshold)
    \/ run_continuous_learning
    \/ \E attempted \in 0..Cardinality(TaskIds) :
          run_continuous_learning_raising(attempted)
    \/ cancel
    \/ get_swarm_status

SpecLoop == Init /\ [][NextLoop]_vars

\* The loop kept running for the lifetime of the process: it is not
\* cancelled, a suspended coroutine is resumed when its sleep is over, and
\* passes that get through their pending tasks keep occurring, whatever
\* number of passes raise in between.  One task ID is submitted over and
\* over, its demand for memory varying like the memory of the nodes.
NextFair ==
    \/ \E node \in Nodes(MemoryCapacities, {"idle"}) : register_node(node)
    \/ \E node_id \in NodeIds : unregister_node(node_id)
    \/ \E task \in Tasks({"t1"}, MemoryDemands) : submit_learning_task(task)
    \/ run_continuous_learning
    \/ \E attempted \in 0..Cardinality(TaskIds) :
          run_continuous_learning_raising(attempted)

SpecFair ==
    InitMatching /\ [][NextFair]_vars /\ WF_vars(run_continuous_learning)

----------------------------------------------------------------------------
(* Properties *)

\* The four field-wise comparisons of a node against a threshold, spelled out.
CapacityAtLeast(node, threshold) ==
    /\ node.available_memory_gb >= threshold.min_memory_gb
    /\ node.cpu_cores >= threshold.min_cpu_cores
    /\ node.gpu_memory_gb >= threshold.min_gpu_memory_gb
    /\ node.network_bandwidth_mbps >= threshold.min_network_bandwidth_mbps

Stored(id) == id \in NodeKeys(nodes)

\* C1: register_node(n) returns true and stores n under n.node_id exactly when
\* all four capacity fields of n are >= the threshold's fields at call time
\* (equality accepted); otherwise it returns false.
C1_RegisterIffMeetsThreshold ==
    [][last'.op = "register_node" =>
         LET n == last'.arg
             meets == CapacityAtLeast(n, resource_threshold)
         IN  /\ last'.ret = meets
             /\ meets => /\ n.node_id \in NodeKeys(nodes')
                         /\ GetNode(nodes', n.node_id) = n]_vars

\* A node was accepted with its memory equal to a raised memory threshold.
C1_Witness ==
    /\ last.op = "register_node"
    /\ last.ret = TRUE
    /\ resource_threshold.min_memory_gb > 1
    /\ last.arg.available_memory_gb = resource_threshold.min_memory_gb
    /\ Stored(last.arg.node_id)

\* C2: every registered node satisfies the current threshold on all four
\* fields, whatever its status.
C2_RegistrySatisfiesThreshold ==
    \A i \in 1..Len(nodes) : CapacityAtLeast(nodes[i], resource_threshold)

\* set_resource_threshold has just raised a field; a busy node is gone (its
\* task still names it) and a busy node is still registered.
C2_Witness ==
    /\ last.op = "set_resource_threshold"
    /\ resource_threshold # ResourceThreshold(1, 1, 0, 1)
    /\ \E i \in 1..Len(tasks) :
          /\ tasks[i].assigned_nodes # <<>>
          /\ ~Stored(tasks[i].assigned_nodes[1])
    /\ \E i \in 1..Len(nodes) : nodes[i].status = "busy"

Occupied == {"busy", "learning", "error"}

\* Task t is stored in registry ts and names node n.
Lists(ts, t, n) ==
    /\ t \in TaskKeys(ts)
    /\ \E k \in 1..Len(GetTask(ts, t).assigned_nodes) :
          GetTask(ts, t).assigned_nodes[k] = n

\* This step made task t name node n.
NewlyLists(t, n) == Lists(tasks', t, n) /\ ~Lists(tasks, t, n)

\* C3: no double-booking.  A step never makes two tasks name the same node,
\* and never makes a task name a node that another stored task names while
\* the node still has the busy, learning or error status.
C3_NoDoubleBooking ==
    [][\A n \in NodeIds : \A t \in TaskIds : \A u \in TaskIds \ {t} :
          (NewlyLists(t, n) /\ Lists(tasks', u, n)) =>
              /\ ~NewlyLists(u, n)
              /\ ~(Stored(n) /\ GetNode(nodes, n).status \in Occupied)]_vars

\* A submission found the only node busy for another task and stayed pending.
C3_Witness ==
    /\ last.op = "submit_learning_task"
    /\ last.assigned = {}
    /\ Len(nodes) = 1
    /\ nodes[1].status = "busy"
    /\ \E u \in TaskKeys(tasks) \ {last.ret} : Lists(tasks, u, nodes[1].node_id)
    /\ GetTask(tasks, last.ret).status = "pending"

\* C4: a registered node named by a stored task is busy, learning or in
\* error, never idle, also after the node is registered again.
C4_AssignedNodeNeverIdle ==
    \A n \in NodeIds : \A t \in TaskIds :
        (Stored(n) /\ Lists(tasks, t, n)) => GetNode(nodes, n).status \in Occupied

\* C5: a stored task names a node only if it is assigned, running, completed
\* or failed; a pending task names none.
C5_PendingHasNoNodes ==
    \A i \in 1..Len(tasks) :
        /\ tasks[i].assigned_nodes # <<>> =>
               tasks[i].status \in {"assigned", "running", "completed", "failed"}
        /\ tasks[i].status = "pending" => tasks[i].assigned_nodes = <<>>

\* One task is assigned to a node while another waits with none.
C5_Witness ==
    /\ \E i \in 1..Len(tasks) :
          tasks[i].status = "assigned" /\ tasks[i].assigned_nodes # <<>>
    /\ \E i \in 1..Len(tasks) :
          tasks[i].status = "pending" /\ tasks[i].assigned_nodes = <<>>

\* C6: a task comes to name nodes it did not name before only in a step of
\* submit_learning_task or of the loop in which _assign_nodes_to_task
\* succeeded for it, and each node named was registered and idle right before
\* the step.
C6_AssignedOnlyByMatcher ==
    [][\A t \in TaskKeys(tasks') :
          LET now == GetTask(tasks', t).assigned_nodes
          IN  (now # <<>> /\ (t \in TaskKeys(tasks) =>
                                 GetTask(tasks, t).assigned_nodes # now)) =>
                /\ last'.op \in {"submit_learning_task", "run_continuous_learning"}
                /\ t \in last'.assigned
                /\ \A k \in 1..Len(now) :
                      /\ Stored(now[k])
                      /\ GetNode(nodes, now[k]).status = "idle"]_vars

\* The loop has just assigned a task that had been waiting.
C6_Witness ==
    /\ last.op = "run_continuous_learning"
    /\ \E t \in last.assigned :
          /\ GetTask(tasks, t).assigned_nodes # <<>>
          /\ GetNode(nodes, GetTask(tasks, t).assigned_nodes[1]).status = "busy"

UniqueKeys(ns, ts) ==
    /\ Cardinality(NodeKeys(ns)) = Len(ns)
    /\ Cardinality(TaskKeys(ts)) = Len(ts)

\* C7: last write wins.  Submitting a stored task_id replaces the stored task
\* and registering an accepted node_id again replaces the stored node, status
\* and capacities included; neither adds an entry, and each registry holds at
\* most one entry per ID.
C7_LastWriteWins ==
    [][/\ UniqueKeys(nodes', tasks')
       /\ (last'.op = "submit_learning_task" /\ last'.ret \in TaskKeys(tasks)) =>
             /\ Len(tasks') = Len(tasks)
             /\ GetTask(tasks', last'.ret).required_resources
                    = last'.arg.required_resources
             /\ GetTask(tasks', last'.ret).status \in {"pending", "assigned"}
             /\ last'.ret \notin last'.assigned =>
                    GetTask(tasks', last'.ret) = last'.arg
       /\ (last'.op = "register_node" /\ last'.ret = TRUE
               /\ Stored(last'.arg.node_id)) =>
             /\ Len(nodes') = Len(nodes)
             /\ GetNode(nodes', last'.arg.node_id) = last'.arg]_vars

\* A busy node, named by a task, has been registered again with another
\* status and less memory, next to a second node.
C7_Witness ==
    /\ last.op = "register_node"
    /\ last.ret = TRUE
    /\ Len(nodes) = 2
    /\ last.arg.status = "learning"
    /\ last.arg.available_memory_gb < MaxMem
    /\ GetNode(nodes, last.arg.node_id) = last.arg
    /\ \E t \in TaskKeys(tasks) : Lists(tasks, t, last.arg.node_id)

\* C8: the snapshot's total_nodes is the registry size, its node counts sum
\* to total_nodes, and its task counts account for every stored task.
C8_SnapshotCountsComplete ==
    last.op = "get_swarm_status" =>
        /\ last.ret.total_nodes = Len(nodes)
        /\ last.ret.idle_nodes + last.ret.busy_nodes + last.ret.learning_nodes
               + CountNodes(nodes, "error") = last.ret.total_nodes
        /\ last.ret.pending_tasks + last.ret.running_tasks
               + last.ret.completed_tasks = Len(tasks)

\* Some registered idle node has the capacity the task demands.
IdleNodeFor(task) ==
    \E i \in 1..Len(nodes) :
        /\ nodes[i].status = "idle"
        /\ CapacityAtLeast(nodes[i], task.required_resources)

\* C9: submit_learning_task(t) returns t.task_id and t is stored under it;
\* right after the call t is assigned if some registered idle node satisfied
\* its demand on all four fields at call time, and pending otherwise.
C9_SubmitAlwaysAccepts ==
    [][last'.op = "submit_learning_task" =>
         /\ last'.ret = last'.arg.task_id
         /\ last'.ret \in TaskKeys(tasks')
         /\ GetTask(tasks', last'.ret).required_resources
                = last'.arg.required_resources
         /\ GetTask(tasks', last'.ret).status
                = IF IdleNodeFor(last'.arg) THEN "assigned" ELSE "pending"]_vars

\* A task stays pending next to a busy node that has the capacity and an idle
\* node that lacks it.
C9_Witness ==
    /\ last.op = "submit_learning_task"
    /\ GetTask(tasks, last.ret).status = "pending"
    /\ \E i \in 1..Len(nodes) :
          /\ nodes[i].status = "busy"
          /\ CapacityAtLeast(nodes[i], last.arg.required_resources)
    /\ \E i \in 1..Len(nodes) :
          /\ nodes[i].status = "idle"
          /\ ~CapacityAtLeast(nodes[i], last.arg.required_resources)

\* C10: a call that reports failure changes nothing.  register_node of a node
\* below the threshold, unregister_node of an absent ID, and
\* _assign_nodes_to_task of an unknown task or with no candidate return false
\* and leave both registries and the threshold as they were.
C10_FailureChangesNothing ==
    [][/\ (last'.op = "register_node"
              /\ ~CapacityAtLeast(last'.arg, resource_threshold)) =>
             last'.ret = FALSE
       /\ (last'.op = "unregister_node" /\ ~Stored(last'.arg)) =>
             last'.ret = FALSE
       /\ (last'.op = "_assign_nodes_to_task"
              /\ (last'.arg \notin TaskKeys(tasks)
                     \/ ~IdleNodeFor(GetTask(tasks, last'.arg)))) =>
             last'.ret = FALSE
       /\ (last'.op \in {"register_node", "unregister_node",
                          "_assign_nodes_to_task"}
              /\ last'.ret = FALSE) =>
             UNCHANGED <<nodes, tasks, resource_threshold>>]_vars

\* The matcher was called for a stored pending task while the only idle node
\* lacked the memory the task demands.
C10_Witness ==
    /\ last.op = "_assign_nodes_to_task"
    /\ last.ret = FALSE
    /\ last.arg \in TaskKeys(tasks)
    /\ GetTask(tasks, last.arg).status = "pending"
    /\ Len(nodes) = 2
    /\ \E i \in 1..Len(nodes) : nodes[i].status = "busy"
    /\ \E i \in 1..Len(nodes) :
          /\ nodes[i].status = "idle"
          /\ ~CapacityAtLeast(nodes[i], GetTask(tasks, last.arg).required_resources)

\* C11: register_node, unregister_node and set_resource_threshold never
\* modify the task registry: every stored task has the same status and the
\* same assigned_nodes after the call as before, also when the node removed
\* or evicted is listed by an assigned task (the task keeps naming it).
C11_NodeOperationsLeaveTasks ==
    [][last'.op \in {"register_node", "unregister_node",
                     "set_resource_threshold"} => tasks' = tasks]_vars

\* unregister_node has just removed a node that an assigned task lists; the
\* task is still assigned and still names the missing node.
C11_Witness ==
    /\ last.op = "unregister_node"
    /\ last.ret = TRUE
    /\ ~Stored(last.arg)
    /\ \E i \in 1..Len(tasks) :
          /\ tasks[i].status = "assigned"
          /\ tasks[i].assigned_nodes = <<last.arg>>

\* C12: get_swarm_status is a pure read: it leaves the node registry with
\* every node's status, the task registry and the threshold exactly as they
\* were, so a call placed anywhere changes nothing for the other operations.
C12_StatusIsPureRead ==
    [][last'.op = "get_swarm_status" =>
         /\ nodes' = nodes
         /\ tasks' = tasks
         /\ resource_threshold' = resource_threshold
         /\ pc' = pc]_vars

\* The snapshot was taken of a coordinator holding a busy node, a node in
\* error, an assigned task and a pending task.
C12_Witness ==
    /\ last.op = "get_swarm_status"
    /\ last.ret.total_nodes = 2
    /\ last.ret.busy_nodes = 1
    /\ last.ret.pending_tasks = 1
    /\ \E i \in 1..Len(nodes) : nodes[i].status = "error"
    /\ \E i \in 1..Len(tasks) : tasks[i].status = "assigned"

\* C13: when _assign_nodes_to_task succeeds it chooses exactly one node; that
\* node was registered and idle at the time of the call, satisfies the task's
\* required_resources on all four fields, and no registered idle node
\* satisfying them has a greater (available_memory_gb, cpu_cores) pair,
\* memory compared first.
C13_ChoosesGreatestIdleSuitable ==
    [][\A t \in TaskIds : last'.assigned = {t} =>
         LET now == GetTask(tasks', t).assigned_nodes
             req == GetTask(tasks', t).required_resources
         IN  /\ Len(now) = 1
             /\ now[1] \in NodeKeys(nodes)
             /\ LET chosen == GetNode(nodes, now[1])
                IN  /\ chosen.status = "idle"
                    /\ CapacityAtLeast(chosen, req)
                    /\ \A i \in 1..Len(nodes) :
                          (nodes[i].status = "idle"
                              /\ CapacityAtLeast(nodes[i], req)) =>
                             \/ nodes[i].available_memory_gb
                                    < chosen.available_memory_gb
                             \/ /\ nodes[i].available_memory_gb
                                       = chosen.available_memory_gb
                                /\ nodes[i].cpu_cores <= chosen.cpu_cores
             /\ \A n \in NodeKeys(nodes') :
                   (n \in NodeKeys(nodes)
                       /\ GetNode(nodes', n) # GetNode(nodes, n)) =>
                      n = now[1]]_vars

\* A task was given the node with more memory and fewer cores while an idle
\* node with less memory and more cores, also satisfying the task, was left.
C13_Witness ==
    /\ last.op = "submit_learning_task"
    /\ last.assigned = {last.ret}
    /\ Len(nodes) = 2
    /\ \E i, j \in 1..Len(nodes) :
          /\ GetTask(tasks, last.ret).assigned_nodes = <<nodes[i].node_id>>
          /\ nodes[i].status = "busy"
          /\ nodes[j].status = "idle"
          /\ CapacityAtLeast(nodes[j], last.arg.required_resources)
          /\ nodes[i].available_memory_gb > nodes[j].available_memory_gb
          /\ nodes[i].cpu_cores < nodes[j].cpu_cores

\* C14: a successful _assign_nodes_to_task turns the chosen node busy and
\* the task assigned, returns true, and leaves the task's assigned_nodes
\* equal to its previous value with the chosen node's ID appended at the
\* end, the earlier entries being kept.
C14_AssignmentAppends ==
    [][\A t \in last'.assigned :
         LET before == IF last'.op = "submit_learning_task"
                       THEN last'.arg.assigned_nodes
                       ELSE GetTask(tasks, t).assigned_nodes
             now == GetTask(tasks', t).assigned_nodes
         IN  /\ GetTask(tasks', t).status = "assigned"
             /\ Len(now) = Len(before) + 1
             /\ SubSeq(now, 1, Len(before)) = before
             /\ now[Len(now)] \in NodeKeys(nodes')
             /\ GetNode(nodes', now[Len(now)]).status = "busy"
             /\ last'.op = "_assign_nodes_to_task" => last'.ret = TRUE]_vars

\* The status task t had before the step: the one it was submitted with when
\* the step is its submission, the stored one otherwise.
StatusBefore(t) ==
    IF last'.op = "submit_learning_task" /\ last'.arg.task_id = t
    THEN last'.arg.status
    ELSE GetTask(tasks, t).status

\* C15: the only status transitions an operation of the coordinator performs
\* are task pending -> assigned and node idle -> busy, both within a
\* successful assignment.  Apart from register_node storing a descriptor as
\* given, no operation writes running, completed or failed to a task, changes
\* the status of a task that is not pending, or gives a stored node a status
\* other than busy.
C15_OnlyAssignmentTransitions ==
    [][/\ \A t \in TaskKeys(tasks') :
             GetTask(tasks', t).status # StatusBefore(t) =>
                /\ StatusBefore(t) = "pending"
                /\ GetTask(tasks', t).status = "assigned"
                /\ t \in last'.assigned
       /\ \A n \in NodeKeys(nodes) \cap NodeKeys(nodes') :
             (GetNode(nodes', n).status # GetNode(nodes, n).status
                 /\ ~(last'.op = "register_node" /\ last'.arg.node_id = n)) =>
                /\ GetNode(nodes, n).status = "idle"
                /\ GetNode(nodes', n).status = "busy"
                /\ last'.assigned # {}]_vars

\* C16: an iteration of run_continuous_learning attempts every task that was
\* pending when it began, so when its assignment phase is over no stored
\* pending task is left together with a registered idle node that satisfies
\* the task's required_resources.
C16_LoopLeavesNoMatch ==
    (last.op = "run_continuous_learning" /\ last.ret = "none") =>
        \A i \in 1..Len(tasks) :
            tasks[i].status = "pending" => ~IdleNodeFor(tasks[i])

\* An iteration assigned one task and left the other pending beside an idle
\* node that lacks the memory the task demands.
C16_Witness ==
    /\ last.op = "run_continuous_learning"
    /\ last.ret = "none"
    /\ Cardinality(last.assigned) = 1
    /\ \E i \in 1..Len(tasks) : \E j \in 1..Len(nodes) :
          /\ tasks[i].status = "pending"
          /\ nodes[j].status = "idle"
          /\ ~CapacityAtLeast(nodes[j], tasks[i].required_resources)

\* C17: the loop is never terminated by an error.  A pass that raises an
\* ordinary error is caught at the loop boundary and followed by the backoff
\* sleep of 10 units instead of 5; the backoff sleep is left only by a
\* further pass (or by cancellation), however many passes have failed
\* before; the error never reaches the caller of run_continuous_learning.
C17_ErrorNeverEndsLoop ==
    [][/\ pc' \in Suspended \cup {"cancelled"}
       /\ (last'.op = "run_continuous_learning" /\ last'.ret = "raised") =>
              pc' = "sleep10"
       /\ (pc = "sleep10" /\ pc' # "sleep10") =>
              \/ last'.op = "run_continuous_learning" /\ pc' = "sleep5"
              \/ last'.op = "cancel" /\ pc' = "cancelled"]_vars

\* A pass resumed from the backoff sleep raised again, after assigning one
\* of two pending tasks, and the loop is back in its backoff sleep.
C17_Witness ==
    /\ last.op = "run_continuous_learning"
    /\ last.arg = "sleep10"
    /\ last.ret = "raised"
    /\ pc = "sleep10"
    /\ Cardinality(last.assigned) = 1
    /\ \E i \in 1..Len(tasks) :
          tasks[i].status = "pending" /\ IdleNodeFor(tasks[i])

\* C18: with run_continuous_learning running in the background beside its
\* callers, an assignment attempt selects its node and writes the statuses
\* with no other operation in between, the loop giving way only at its
\* sleeps; so no two attempts select the same idle node: every task assigned
\* in a step got a node that was idle before the step and is busy after it,
\* and no other task assigned in that step got the same node.
C18_AttemptsNeverShareIdleNode ==
    [][\A t \in last'.assigned :
         LET n == GetTask(tasks', t).assigned_nodes[1]
         IN  /\ n \in NodeKeys(nodes)
             /\ GetNode(nodes, n).status = "idle"
             /\ GetNode(nodes', n).status = "busy"
             /\ \A u \in last'.assigned \ {t} :
                   GetTask(tasks', u).assigned_nodes[1] # n]_vars

\* A pass of the loop found one task already assigned by its submitter and
\* gave the other pending task the remaining idle node.
C18_Witness ==
    /\ last.op = "run_continuous_learning"
    /\ last.arg = "sleep5"
    /\ Cardinality(last.assigned) = 1
    /\ Len(tasks) = 2
    /\ \A i \in 1..Len(tasks) : tasks[i].status = "assigned"
    /\ tasks[1].assigned_nodes # tasks[2].assigned_nodes
    /\ \A i \in 1..Len(nodes) : nodes[i].status = "busy"

\* C19: cancellation from outside stops the loop.  Cancelled while suspended
\* in either sleep (5 units, or 10 units in the error handler), the coroutine
\* ends: the handler does not swallow the cancellation, and no further pass
\* and no further assignment by the loop follows.
C19_CancellationEndsLoop ==
    [][/\ last'.op = "cancel" => pc' = "cancelled"
       /\ pc = "cancelled" =>
             /\ pc' = "cancelled"
             /\ last'.op # "run_continuous_learning"]_vars

\* The loop was cancelled in its five-unit sleep, inside `try`, and is over
\* while a pending task and an idle node that satisfies it are left.
C19_Witness ==
    /\ pc = "cancelled"
    /\ last.op = "cancel"
    /\ last.arg = "sleep5"
    /\ \E i \in 1..Len(tasks) :
          tasks[i].status = "pending" /\ IdleNodeFor(tasks[i])

\* C20: no leaked busy node.  With nodes always registered idle and tasks
\* always submitted pending with no node assigned, in every state reached by
\* register_node, unregister_node, submit_learning_task (a stored task_id
\* submitted again included), set_resource_threshold and passes of the loop,
\* every registered busy node is listed by at least one stored task.
C20_BusyNodeIsListed ==
    \A i \in 1..Len(nodes) :
        nodes[i].status = "busy" =>
            \E t \in TaskKeys(tasks) : Lists(tasks, t, nodes[i].node_id)

\* Task t is stored and some registered idle node satisfies its demand.
Matchable(t) == t \in TaskKeys(tasks) /\ IdleNodeFor(GetTask(tasks, t))

\* C21: progress of pending tasks.  If passes of run_continuous_learning keep
\* occurring and from some point on there is always a registered idle node
\* satisfying a stored task's required_resources, the task does not stay
\* pending for ever: it has status assigned again and again.
C21_PendingTaskProgress ==
    \A t \in TaskIds :
        <>[]Matchable(t) =>
            []<>(t \in TaskKeys(tasks) /\ GetTask(tasks, t).status = "assigned")

\* A pass resumed from the backoff sleep assigned a task that earlier passes
\* had left pending, and an idle node satisfying that task is still there.
C21_Witness ==
    /\ last.op = "run_continuous_learning"
    /\ last.arg = "sleep10"
    /\ last.ret = "none"
    /\ \E t \in last.assigned :
          /\ GetTask(tasks, t).status = "assigned"
          /\ Matchable(t)

====
